---- MODULE Spec2Model ----
(***************************************************************************)
(* Three independent physics demonstrations, each a module-level           *)
(* computation of derived quantities followed by a matplotlib              *)
(* FuncAnimation that feeds frame indices to an update callback:           *)
(*   sheet2/ex10.py             two descent paths, speed history buffers   *)
(*   sheet2/ex10_james_bond.py  stunt jump onto a moving boat              *)
(*   sheet3/ex14.py             three circular orbits                      *)
(* A behaviour runs one script (variable scenario).                        *)
(*                                                                         *)
(* Arithmetic.  ex10.py is modelled in decimal fixed point with Scale      *)
(* units per metre / second (floor rounding, products and quotients split  *)
(* so that no intermediate leaves 32 bits).  ex10_james_bond.py is         *)
(* modelled exactly: with dt = 1/50 s, speeds in km/h and g = 9.81 every   *)
(* quantity it compares is a rational with a fixed denominator, so         *)
(* horizontal positions are kept in 1/XU m and heights in 1/YU m.          *)
(* ex14.py is modelled with lengths in units of 100 km and times in s.     *)
(***************************************************************************)
EXTENDS Integers, Sequences, FiniteSets, TLC

\* ------------------------------------------------------------------------
\* Fixed point helpers (ex10.py)
\* ------------------------------------------------------------------------
\* units per metre, second, m/s, m/s^2 of the fixed-point representation
Scale == 10000

Max2(a, b) == IF a >= b THEN a ELSE b
Min2(a, b) == IF a <= b THEN a ELSE b
Abs(a) == IF a < 0 THEN -a ELSE a

\* a * b of two fixed-point numbers: floor(a*b / Scale)
Mul(a, b) == (a \div Scale) * b + ((a % Scale) * b) \div Scale
\* a / b of two fixed-point numbers (b > 0): floor(a*Scale / b)
Div(a, b) == (a \div b) * Scale + ((a % b) * Scale) \div b

\* np.sqrt: the largest r >= 0 with floor(r*r / Scale) <= x
RECURSIVE SqrtSearch(_, _, _)
SqrtSearch(x, lo, hi) ==
    IF lo >= hi THEN lo
    ELSE LET mid == (lo + hi + 1) \div 2
         IN  IF Mul(mid, mid) <= x THEN SqrtSearch(x, mid, hi)
                                   ELSE SqrtSearch(x, lo, mid - 1)
Sqrt(x) == SqrtSearch(x, 0, 20 * Scale)

\* ------------------------------------------------------------------------
\* sheet2/ex10.py: parameters and derived quantities
\* ------------------------------------------------------------------------
\* gravity in cm/s^2 (9.81 m/s^2)
g_cm == 981
g == (g_cm * Scale) \div 100
h == 2 * Scale
l_incline == 3 * Scale
\* np.sin(angle) for angle = pi/6
sin_angle == Scale \div 2

v_final == Sqrt(Mul(2 * g, h))

h_roll == Scale \div 2
v_B == Sqrt(Mul(2 * g, h_roll))
t_fall1 == Sqrt(Div(2 * (h - h_roll), g))
a_roll == Mul(g, sin_angle)
t_roll1 == Sqrt(Div(2 * h_roll, a_roll))
T1 == t_roll1 + t_fall1

h_free == Scale
v_C == Sqrt(Mul(2 * g, h_free))
t_fall2 == Sqrt(Div(2 * h_free, g))
a_roll2 == Mul(g, sin_angle)
s_total == l_incline
\* coeff = [0.5 * a_roll2, v_C, -s_total]
coeff == << a_roll2 \div 2, v_C, -s_total >>

\* np.roots of a quadratic c[1] t^2 + c[2] t + c[3] with real roots:
\* the pair (-b -+ sqrt(b^2 - 4ac)) / 2a
Roots(c) ==
    LET disc == Mul(c[2], c[2]) - 4 * Mul(c[1], c[3])
        sq   == Sqrt(disc)
    IN  << Div(-c[2] + sq, 2 * c[1]), Div(-c[2] - sq, 2 * c[1]) >>
sol == Roots(coeff)
\* np.max(sol)
t_roll2_min == Min2(sol[1], sol[2])
t_roll2 == Max2(sol[1], sol[2])
T2 == t_fall2 + t_roll2

t_max == Max2(T1, T2)
\* number of samples of np.linspace(0, t_max, 300)
NPaths == 300
\* ts[k], k = 0 .. NPaths-1
ts(k) == (k * t_max) \div (NPaths - 1)

speed_path1(t) ==
    IF t < t_roll1 THEN Mul(a_roll, t)
    ELSE IF t < T1
         THEN LET tau == t - t_roll1
              IN  Sqrt(Mul(v_B, v_B) + Mul(Mul(g, tau), Mul(g, tau)))
         ELSE v_final

speed_path2(t) ==
    IF t < t_fall2 THEN Mul(g, t)
    ELSE IF t < T2
         THEN LET tau == t - t_fall2 IN v_C + Mul(a_roll2, tau)
         ELSE v_final

pos_path1(t) ==
    IF t < t_roll1
    THEN << Div(t, t_roll1), -Mul(h_roll, Div(t, t_roll1)) >>
    ELSE IF t < T1
         THEN LET tau == Div(t - t_roll1, t_fall1)
              IN  << Scale + tau, -h_roll - Mul(h - h_roll, tau) >>
         ELSE << 2 * Scale, -h >>

pos_path2(t) ==
    IF t < t_fall2
    THEN LET tau == Div(t, t_fall2) IN << tau, -Mul(h_free, tau) >>
    ELSE IF t < T2
         THEN LET tau == Div(t - t_fall2, t_roll2)
              IN  << Scale + 2 * tau, -h_free - Mul(h - h_free, tau) >>
         ELSE << 3 * Scale, -h >>

\* ------------------------------------------------------------------------
\* sheet2/ex10_james_bond.py: parameters and pure functions (exact)
\* ------------------------------------------------------------------------
stage_height == 4
x0_bond == 0
boat_length == 5
boat_x0 == 10
\* boat speed in km/h (boat_speed = 30 / 3.6 m/s)
boat_speed_kmh == 30
\* dt = 0.02 s = 1 / dt_inv
dt_inv == 50
T_max == 2
\* len(np.arange(0, T_max, dt))
NJump == T_max * dt_inv

\* horizontal units per metre: v [km/h] * t_k = v * k / (3.6 * dt_inv) m
XU == (36 * dt_inv) \div 10
\* vertical units per metre: 0.5 * g * t_k^2 = g_cm * k^2 / (200 * dt_inv^2) m
YU == 200 * dt_inv * dt_inv
\* boat_height = 0.5 m
boat_height == YU \div 2

\* bond_trajectory(v0_kmh): x[k], y[k] for frame k
x_val(v, k) == x0_bond * XU + v * k
y_val(k) == stage_height * YU - g_cm * k * k

\* boat_position(t_k): x_left, x_right, y_bottom, y_top
boat_left(k) == boat_x0 * XU + boat_speed_kmh * k
boat_position(k) ==
    << boat_left(k), boat_left(k) + boat_length * XU, 0, boat_height >>

Success == "Success! 007 landed on the boat."
Missed == "Missed! 007 fell into the water."

\* the stop conditions of update: the label to set, "" to stay in flight
StopMissFirst(px, py, x_left, x_right, top) ==
    IF py <= 0 THEN Missed
    ELSE IF (x_left <= px /\ px <= x_right) /\ (0 <= py /\ py <= top)
         THEN Success
         ELSE ""
StopNoMiss(px, py, x_left, x_right, top) ==
    IF (x_left <= px /\ px <= x_right) /\ (0 <= py /\ py <= top)
    THEN Success
    ELSE ""
StopNoVertical(px, py, x_left, x_right, top) ==
    IF x_left <= px /\ px <= x_right
    THEN Success
    ELSE IF py <= 0 THEN Missed
         ELSE ""
StopCondition(px, py, x_left, x_right, top) ==
    IF (x_left <= px /\ px <= x_right) /\ (0 <= py /\ py <= top)
    THEN Success
    ELSE IF py <= 0 THEN Missed
         ELSE ""

\* ------------------------------------------------------------------------
\* sheet3/ex14.py: parameters and derived quantities
\* lengths in units of 100 km, times in s
\* ------------------------------------------------------------------------
\* G * M_earth = 3.98589e14 m^3/s^2, in 1e-4 (100 km)^3 / s^2
GM == 3986
\* denominator of GM and of TwoPi
Frac == 10000
\* 2 * np.pi, in 1/Frac
TwoPi == 62832
\* R_earth_real = 6.371e6 m, in km
R_earth_real_km == 6371
T_earth == 24 * 3600

\* floor(a * b / c) for 0 <= a, 0 < b, c <= Frac
MulDiv(a, b, c) == (a \div c) * b + ((a % c) * b) \div c

\* x ** (1/3): the largest r with r^3 <= x
RECURSIVE CbrtSearch(_, _, _)
CbrtSearch(x, lo, hi) ==
    IF lo >= hi THEN lo
    ELSE LET mid == (lo + hi + 1) \div 2
         IN  IF mid * mid * mid <= x THEN CbrtSearch(x, mid, hi)
                                     ELSE CbrtSearch(x, lo, mid - 1)
Cbrt(x) == CbrtSearch(x, 0, 1200)

\* np.sqrt on integers: the largest r with r^2 <= x
RECURSIVE ISqrtSearch(_, _, _)
ISqrtSearch(x, lo, hi) ==
    IF lo >= hi THEN lo
    ELSE LET mid == (lo + hi + 1) \div 2
         IN  IF mid * mid <= x THEN ISqrtSearch(x, mid, hi)
                               ELSE ISqrtSearch(x, lo, mid - 1)
ISqrt(x) == ISqrtSearch(x, 0, 46000)

\* r_geo_real = (GM * (T_geo / (2 pi))^2) ^ (1/3), with T_geo = T_earth
r_geo_real ==
    LET w == (T_earth * Frac) \div TwoPi
    IN  Cbrt(MulDiv(w * w, GM, Frac))
\* 4 ** (1/3) and 4 ** (-1/3), in 1/100
pow4_third == Cbrt(4 * 100 * 100 * 100)
pow4_mthird == (100 * 100) \div pow4_third
r_close_real == (pow4_mthird * r_geo_real) \div 100
r_far_real == (pow4_third * r_geo_real) \div 100

\* orbital_period(r) = 2 pi sqrt(r^3 / GM), in s
orbital_period_inv(r) == (TwoPi * ISqrt(MulDiv(GM, Frac, r * r * r))) \div Frac
orbital_period(r) == (TwoPi * ISqrt(MulDiv(r * r * r, Frac, GM))) \div Frac

T_close == orbital_period(r_close_real)
T_geo == orbital_period(r_geo_real)
T_far == orbital_period(r_far_real)

\* plot scaling: R_earth = 5.0 plot units, scale = R_earth / R_earth_real;
\* plot lengths in 1/1000 plot unit
R_earth == 5
scaled(r) == (r * R_earth * 100 * 1000) \div R_earth_real_km
r_close == scaled(r_close_real)
r_geo == scaled(r_geo_real)
r_far == scaled(r_far_real)

frames == 500
sim_time == 3 * T_earth
\* times[k] of np.linspace(0, sim_time, frames)
times(k) == (k * sim_time) \div (frames - 1)

\* sat_pos(r, T, t) and earth_marker(t) in polar form <<radius, angle>>,
\* the angle theta = 2 pi t / T kept in 1/1000 turn
sat_pos(r, T, t) == << r, (t * 1000) \div T >>
earth_marker(t) == << R_earth * 1000, (t * 1000) \div T_earth >>

\* ------------------------------------------------------------------------
\* State
\* ------------------------------------------------------------------------
\* bounds of the model
MaxV0 == 100
MaxPasses == 2
MaxR == 700
MaxProbeK == 5

VARIABLES
    scenario,     \* the script that runs: "paths", "jump", "orbit"; "stop" probes StopCondition
    pc,           \* FuncAnimation: "start" before the first draw, "run", "end"
    next,         \* index of the next frame of the frame sequence
    pass,         \* completed passes over the frame sequence
    calls,        \* number of update calls so far
    last,         \* frame index of the latest update call, -1 before the first
    t_data, v1_data, v2_data,      \* ex10.py history buffers
    ball1, ball2, line1, line2,    \* ex10.py artists
    v0_kmh,                        \* argument of animate_jump
    done,                          \* stopped["done"]
    bond_dot, traj_line, boat_patch, status_text,   \* animate_jump artists
    sat_close, sat_geo, sat_far, marker,            \* ex14.py artists
    probe         \* arguments and result of a StopCondition evaluation

driverVars == << pc, next, pass >>
callVars == << calls, last >>
pathsVars == << t_data, v1_data, v2_data, ball1, ball2, line1, line2 >>
jumpDisplay == << bond_dot, traj_line, boat_patch, status_text >>
jumpVars == << v0_kmh, done, bond_dot, traj_line, boat_patch, status_text >>
orbitVars == << sat_close, sat_geo, sat_far, marker >>
vars == << scenario, driverVars, callVars, pathsVars, jumpVars, orbitVars, probe >>

NoProbe == [x |-> 0, y |-> 0, k |-> 0, res |-> "none"]

\* module level of the three scripts up to the FuncAnimation constructor
InitArtists ==
    /\ pc = "start" /\ next = 0 /\ pass = 0 /\ calls = 0 /\ last = -1
    /\ t_data = << >> /\ v1_data = << >> /\ v2_data = << >>
    /\ ball1 = << >> /\ ball2 = << >>
    /\ line1 = << << >>, << >> >> /\ line2 = << << >>, << >> >>
    /\ done = FALSE
    /\ bond_dot = << >> /\ traj_line = << >>
    /\ boat_patch = << boat_x0 * XU, 0 >>
    /\ status_text = ""
    /\ sat_close = << >> /\ sat_geo = << >> /\ sat_far = << >> /\ marker = << >>

Init ==
    /\ scenario \in {"paths", "jump", "orbit"}
    /\ v0_kmh \in (IF scenario = "jump" THEN 0 .. MaxV0 ELSE {0})
    /\ probe = NoProbe
    /\ InitArtists

\* frames=len(ts), frames=len(t_vals), frames=frames
NFrames == CASE scenario = "paths" -> NPaths
             [] scenario = "jump" -> NJump
             [] OTHER -> frames
\* repeat: FuncAnimation's default True, False only where the call passes it
Repeat == scenario # "jump"
\* init_func: given only by animate_jump
HasInitFunc == scenario = "jump"

\* ------------------------------------------------------------------------
\* update callbacks
\* ------------------------------------------------------------------------
\* ex10.py update(frame)
UpdatePathsReset(frame) ==
    LET t == ts(frame)
        base(buf) == IF frame = 0 THEN << >> ELSE buf
    IN  /\ ball1' = pos_path1(t)
        /\ ball2' = pos_path2(t)
        /\ t_data' = Append(base(t_data), t)
        /\ v1_data' = Append(base(v1_data), speed_path1(t))
        /\ v2_data' = Append(base(v2_data), speed_path2(t))
        /\ line1' = << t_data', v1_data' >>
        /\ line2' = << t_data', v2_data' >>
        /\ UNCHANGED << jumpVars, orbitVars >>
UpdatePaths(frame) ==
    LET t == ts(frame)
    IN  /\ ball1' = pos_path1(t)
        /\ ball2' = pos_path2(t)
        /\ t_data' = Append(t_data, t)
        /\ v1_data' = Append(v1_data, speed_path1(t))
        /\ v2_data' = Append(v2_data, speed_path2(t))
        /\ line1' = << t_data', v1_data' >>
        /\ line2' = << t_data', v2_data' >>
        /\ UNCHANGED << jumpVars, orbitVars >>

\* animate_jump.update(frame) below the stopped guard
JumpFrame(frame) ==
    LET px == x_val(v0_kmh, frame)
        py == y_val(frame)
        bp == boat_position(frame)
        label == StopCondition(px, py, bp[1], bp[2], bp[4])
    IN  /\ bond_dot' = << px, py >>
        /\ traj_line' = [i \in 1 .. frame |-> << x_val(v0_kmh, i - 1), y_val(i - 1) >>]
        /\ boat_patch' = << bp[1], 0 >>
        /\ status_text' = (IF label # "" THEN label ELSE status_text)
        /\ done' = (done \/ label # "")
UpdateJumpNoGuard(frame) ==
    /\ JumpFrame(frame)
    /\ UNCHANGED << v0_kmh, pathsVars, orbitVars >>
UpdateJump(frame) ==
    /\ IF done
       THEN UNCHANGED << done, jumpDisplay >>
       ELSE JumpFrame(frame)
    /\ UNCHANGED << v0_kmh, pathsVars, orbitVars >>

\* animate_jump.init()
InitJump ==
    /\ bond_dot' = << >>
    /\ traj_line' = << >>
    /\ boat_patch' = << boat_x0 * XU, 0 >>
    /\ status_text' = ""
    /\ UNCHANGED << v0_kmh, done, pathsVars, orbitVars >>

\* ex14.py update(frame)
UpdateOrbit(frame) ==
    LET t == times(frame)
    IN  /\ sat_close' = sat_pos(r_close, T_close, t)
        /\ sat_geo' = sat_pos(r_geo, T_geo, t)
        /\ sat_far' = sat_pos(r_far, T_far, t)
        /\ marker' = earth_marker(t)
        /\ UNCHANGED << pathsVars, jumpVars >>

\* the func argument of the script's FuncAnimation, called with a frame
Update(frame) ==
    /\ CASE scenario = "paths" -> UpdatePaths(frame)
         [] scenario = "jump" -> UpdateJump(frame)
         [] OTHER -> UpdateOrbit(frame)
    /\ calls' = calls + 1
    /\ last' = frame

\* ------------------------------------------------------------------------
\* FuncAnimation(fig, update, frames=N, init_func=..., blit=True, repeat=...)
\* ------------------------------------------------------------------------
\* the initial draw: init_func if given, else func on the first frame.
\* With blit=True it runs at the start and again on every window resize
\* while the animation is live (modelled for animate_jump, whose init_func
\* is code of the script).
DriverInitDraw ==
    /\ scenario \in {"paths", "jump", "orbit"}
    /\ IF HasInitFunc
       THEN /\ pc \in {"start", "run"}
            /\ InitJump
            /\ UNCHANGED callVars
       ELSE /\ pc = "start"
            /\ Update(0)
    /\ pc' = "run"
    /\ UNCHANGED << scenario, next, pass, probe >>

\* one timer tick: the next frame of the sequence goes to func
DriverStep ==
    /\ pc = "run"
    /\ next < NFrames
    /\ Update(next)
    /\ next' = next + 1
    /\ UNCHANGED << scenario, pc, pass, probe >>

\* the sequence is exhausted: with repeat the initial draw runs again and the
\* sequence restarts, without it the animation ends
DriverExhausted ==
    /\ pc = "run"
    /\ next = NFrames
    /\ IF Repeat
       THEN /\ pass + 1 < MaxPasses
            /\ Update(0)
            /\ next' = 0
            /\ pass' = pass + 1
            /\ pc' = pc
       ELSE /\ pc' = "end"
            /\ UNCHANGED << next, pass, callVars, pathsVars, jumpVars, orbitVars >>
    /\ UNCHANGED << scenario, probe >>

Next == DriverInitDraw \/ DriverStep \/ DriverExhausted

Spec == Init /\ [][Next]_vars

\* plt.show() performs the first draw, and the timer keeps ticking while
\* frames remain
FairSpec ==
    /\ Spec
    /\ WF_vars(pc = "start" /\ DriverInitDraw)
    /\ WF_vars(DriverStep)

\* ------------------------------------------------------------------------
\* The stop conditions as a pure function of one frame's values
\* ------------------------------------------------------------------------
ProbeX(k) ==
    LET bp == boat_position(k)
    IN  { bp[1] - 1, bp[1], bp[1] + 1, bp[2] - 1, bp[2], bp[2] + 1 }
ProbeY == { -1, 0, 1, boat_height - 1, boat_height, boat_height + 1 }

InitStop ==
    /\ scenario = "stop"
    /\ v0_kmh = 0
    /\ \E k \in 0 .. MaxProbeK : \E px \in ProbeX(k) : \E py \in ProbeY :
          probe = [x |-> px, y |-> py, k |-> k, res |-> "none"]
    /\ InitArtists

ApplyStop ==
    /\ probe.res = "none"
    /\ LET bp == boat_position(probe.k)
       IN  probe' = [probe EXCEPT !.res = StopCondition(probe.x, probe.y, bp[1], bp[2], bp[4])]
    /\ UNCHANGED << scenario, driverVars, callVars, pathsVars, jumpVars, orbitVars >>

NextStop == ApplyStop

SpecStop == InitStop /\ [][NextStop]_vars

\* ------------------------------------------------------------------------
\* Properties: stunt jump
\* ------------------------------------------------------------------------
MinOf(S) == CHOOSE m \in S : \A n \in S : m <= n
JumpGrid == 0 .. NJump - 1
\* frames at or below the boat's top, frames at or below the water
TopFrames == { k \in JumpGrid : y_val(k) <= boat_height }
GroundFrames == { k \in JumpGrid : y_val(k) <= 0 }
FirstTopFrame == MinOf(TopFrames)
FirstGroundFrame == MinOf(GroundFrames)
InSpan(v, k) == boat_left(k) <= x_val(v, k) /\ x_val(v, k) <= boat_left(k) + boat_length * XU
\* frames at which Bond is inside the boat's box
LandFrames(v) == { k \in JumpGrid : k >= FirstTopFrame /\ y_val(k) >= 0 /\ InSpan(v, k) }
Resolving == scenario = "jump" /\ ~done /\ done'

\* C1 (as stated): the jump is classified "landed" exactly when Bond is within
\* the boat's span at the first frame whose height is <= the boat height, and
\* then at that frame; otherwise "missed" at the first frame with height <= 0.
C1_LandedIffAtFirstTopFrame ==
    [][ Resolving =>
          /\ (status_text' = Success) <=> InSpan(v0_kmh, FirstTopFrame)
          /\ status_text' = Success => last' = FirstTopFrame
          /\ status_text' # Success =>
                (status_text' = Missed /\ last' = FirstGroundFrame) ]_vars

\* C1 (amended): the jump is classified "landed" exactly when Bond is within
\* the boat's span at some frame from the first one with height <= the boat
\* height to the last one with height >= 0, and then at the earliest such
\* frame; otherwise "missed" at the first frame with height <= 0.
C1_LandedIffAtSomeBoxFrame ==
    [][ Resolving =>
          /\ (status_text' = Success) <=> (LandFrames(v0_kmh) # {})
          /\ status_text' = Success => last' = MinOf(LandFrames(v0_kmh))
          /\ status_text' # Success =>
                (status_text' = Missed /\ last' = FirstGroundFrame) ]_vars

\* a landing that happens after the first frame below the boat's top
C1_Witness ==
    /\ scenario = "jump" /\ done /\ status_text = Success
    /\ bond_dot # << >>
    /\ bond_dot[2] < y_val(FirstTopFrame)

\* C2: once stopped["done"] is true it stays true, and every later update
\* call leaves the marker, the trajectory line, the boat and the label as
\* they are.
C2_ResolvedAbsorbing ==
    [][ done => (done' /\ (calls' # calls => jumpDisplay' = jumpDisplay)) ]_vars

\* an update call made after the resolving frame
C2_Witness ==
    /\ scenario = "jump" /\ done /\ bond_dot # << >>
    /\ last >= 0
    /\ y_val(last) < bond_dot[2]

\* C3: the stop conditions are taken in priority order: inside the boat's box
\* gives "landed" (also at height exactly 0), else height <= 0 gives
\* "missed", else the jump stays in flight.
C3_StopPriority ==
    probe.res # "none" =>
        LET bp == boat_position(probe.k)
            inBox == /\ bp[1] <= probe.x /\ probe.x <= bp[2]
                     /\ 0 <= probe.y /\ probe.y <= bp[4]
        IN  /\ inBox => probe.res = Success
            /\ (~inBox /\ probe.y <= 0) => probe.res = Missed
            /\ (~inBox /\ probe.y > 0) => probe.res = ""

\* the tie: inside the span at height exactly 0
C3_Witness == probe.res = Success /\ probe.y = 0

\* C9: every jump resolves, no later than the first frame with height <= 0,
\* which lies on the time grid; no run ends in flight.
C9_AlwaysResolves ==
    /\ <>(scenario = "jump" => done)
    /\ [](scenario = "jump" =>
            /\ GroundFrames # {}
            /\ (next > FirstGroundFrame => done)
            /\ (pc = "end" => done))

\* a jump resolved as missed at the first frame below the water line
C9_Witness ==
    /\ scenario = "jump" /\ done /\ status_text = Missed
    /\ bond_dot = << x_val(v0_kmh, FirstGroundFrame), y_val(FirstGroundFrame) >>

\* C10: the outcome label is non-empty exactly when stopped["done"] is true.
C10_LabelIffDone == (status_text # "") <=> done

\* ------------------------------------------------------------------------
\* Properties: two-path comparison
\* ------------------------------------------------------------------------
\* 0.05 m/s: above one grid step of acceleration plus rounding
SpeedTol == Scale \div 20
\* 0.002 m
RootTol == Scale \div 500

\* C4: the speed recorded at the last sample before a path's total duration
\* (T1 for path 1, T2 for path 2) is within SpeedTol of the terminal speed
\* v_final that the path is clamped to from that duration on.
C4_TerminalSpeed ==
    (scenario = "paths" /\ Len(t_data) >= 2) =>
        LET n == Len(t_data)
        IN  /\ (t_data[n - 1] < T1 /\ t_data[n] >= T1) =>
                  Abs(v1_data[n - 1] - v_final) <= SpeedTol
            /\ (t_data[n - 1] < T2 /\ t_data[n] >= T2) =>
                  Abs(v2_data[n - 1] - v_final) <= SpeedTol

\* C5: the n-th update call of a session gets frame index n - 1: increasing
\* sample times, each grid index once, none skipped.
C5_FramesInOrder == calls > 0 => last = calls - 1

IsPrefix(a, b) == Len(a) <= Len(b) /\ SubSeq(b, 1, Len(a)) = a

\* C6: after n update calls each history buffer holds n entries, and a call
\* only appends: the old buffer is a prefix of the new one.
C6_AppendOnly ==
    /\ [](scenario = "paths" =>
            Len(t_data) = calls /\ Len(v1_data) = calls /\ Len(v2_data) = calls)
    /\ [][ /\ IsPrefix(t_data, t_data')
           /\ IsPrefix(v1_data, v1_data')
           /\ IsPrefix(v2_data, v2_data') ]_vars

\* the buffers after more calls than the grid has samples
C6_Witness == scenario = "paths" /\ Len(t_data) > NPaths /\ Len(v2_data) > NPaths

\* residual of the roll equation 0.5 a t^2 + v0 t - s at t
Residual(t) == Mul(Mul(coeff[1], t), t) + Mul(coeff[2], t) + coeff[3]

\* C7: t_roll2 is the larger root of 0.5 a t^2 + v0 t - s = 0; it is
\* positive and satisfies the equation within RootTol, and the other root is
\* negative.
C7_LargerRoot ==
    scenario = "paths" =>
        /\ t_roll2 \in { sol[1], sol[2] }
        /\ t_roll2 >= sol[1] /\ t_roll2 >= sol[2]
        /\ t_roll2 > 0
        /\ Abs(Residual(t_roll2)) <= RootTol
        /\ \E i \in 1 .. 2 : sol[i] # t_roll2 /\ sol[i] < 0

\* ball 2 drawn on the incline, where t_roll2 sets its progress
C7_Witness ==
    /\ scenario = "paths" /\ last >= 0
    /\ t_fall2 <= ts(last) /\ ts(last) < T2
    /\ ball2 = pos_path2(ts(last))
    /\ ball2[1] > Scale /\ ball2[1] < 3 * Scale

\* ------------------------------------------------------------------------
\* Properties: orbits
\* ------------------------------------------------------------------------
\* orbital_period is strictly increasing on 1 .. MaxR (units of 100 km)
PeriodIncreasing == \A r \in 1 .. MaxR - 1 : orbital_period(r) < orbital_period(r + 1)
\* 0.2 % of a day
PeriodTol == T_earth \div 500

\* C8: for r_close < r_geo < r_far the periods are ordered T_close < T_geo <
\* T_far, orbital_period is strictly increasing in r, and the recomputed
\* T_geo is the Earth's rotation period within PeriodTol.
C8_PeriodOrder ==
    scenario = "orbit" =>
        /\ r_close_real < r_geo_real /\ r_geo_real < r_far_real
        /\ r_far_real <= MaxR
        /\ T_close < T_geo /\ T_geo < T_far
        /\ PeriodIncreasing
        /\ Abs(T_geo - T_earth) <= PeriodTol

\* the three satellites drawn, the closer one further round its orbit
C8_Witness ==
    /\ scenario = "orbit" /\ last > 0
    /\ sat_close # << >>
    /\ sat_close[1] < sat_geo[1] /\ sat_geo[1] < sat_far[1]
    /\ sat_close[2] > sat_geo[2] /\ sat_geo[2] > sat_far[2]
====
